---- MODULE Spec2Model ----
(***************************************************************************)
(* Model of artemis_II_launch_times.py: the CSV window loader, the Moon    *)
(* position / moonrise / illumination helpers and the per-window           *)
(* enrichment loop.                                                        *)
(*                                                                         *)
(* Representation.                                                         *)
(*  - A text field of the CSV file is a sequence of one-character strings. *)
(*  - A datetime.date is its proleptic Gregorian ordinal (date.toordinal). *)
(*  - A datetime.datetime is [day, sec, tzinfo]: the wall-clock date, the  *)
(*    wall-clock second of the day and the attached tzinfo.                *)
(*  - Optional[x] is <<>> (None) or <<x>>.                                 *)
(*  - The ephemeris library is external.  Its rise/set search is the       *)
(*    variable almanac (one event list per UTC day, fixed for the whole    *)
(*    run, i.e. deterministic); its position and illumination primitives   *)
(*    are uninterpreted terms over their arguments, so that two results    *)
(*    are equal exactly when the library was asked the same question.      *)
(***************************************************************************)
EXTENDS Integers, Sequences, FiniteSets, TLC

VARIABLES
    csv,         \* the data rows of the input file, in file order
    almanac,     \* ephemeris provider: UTC day -> sequence of [t, ev]
    local_tz,    \* the local_tz argument
    pc,          \* position of the running call
    reader_pos,  \* load_launch_windows_from_csv: rows the reader has yielded
    row_pos,     \* calculate_...: rows the enrichment loop has taken
    windows,     \* load_launch_windows_from_csv: list built so far
    rows,        \* calculate_...: the list returned by the loader
    results,     \* calculate_...: list built so far
    ret,         \* Optional return value of calculate_...
    exc,         \* name of the exception that ended the call, "" if none
    date_or_dt,  \* argument of a direct moonrise_for_date call
    moonrise,    \* Optional[Optional[datetime]]: its return value
    dt,          \* argument of a direct moon_position call (aware)
    pos_naive,   \* Optional result of moon_position(dt without tzinfo)
    pos_aware    \* Optional result of moon_position(dt)

vars == <<csv, almanac, local_tz, pc, reader_pos, row_pos, windows, rows, results, ret, exc,
          date_or_dt, moonrise, dt, pos_naive, pos_aware>>

(***************************************************************************)
(* Bounds                                                                  *)
(***************************************************************************)
MaxRows == 2      \* data rows in the input file
MaxEvents == 2    \* rise/set events the provider reports for one UTC day

(***************************************************************************)
(* Program constants                                                       *)
(***************************************************************************)
KSC_LAT == 2857        \* 28.57 degrees, in hundredths
KSC_LON == -8065       \* -80.65 degrees, in hundredths
KSC_TZ == "America/New_York"

None == <<>>
Some(x) == <<x>>

(***************************************************************************)
(* datetime / timezone / timedelta                                         *)
(***************************************************************************)
NoTz == [kind |-> "none", off |-> 0, name |-> ""]
FixedTz(m) == [kind |-> "fixed", off |-> m, name |-> ""]
UTC == FixedTz(0)
ZoneInfo(name) == [kind |-> "zone", off |-> 0, name |-> name]

IsLeap(y) == (y % 4 = 0) /\ ((y % 100 # 0) \/ (y % 400 = 0))

DaysInMonth(y, m) ==
    IF m = 2 THEN (IF IsLeap(y) THEN 29 ELSE 28)
    ELSE IF m \in {4, 6, 9, 11} THEN 30 ELSE 31

RECURSIVE DaysBeforeMonth(_, _)
DaysBeforeMonth(y, m) ==
    IF m = 1 THEN 0 ELSE DaysBeforeMonth(y, m - 1) + DaysInMonth(y, m - 1)

\* date(y, m, d).toordinal()
ToOrdinal(y, m, d) ==
    LET p == y - 1
    IN  p * 365 + (p \div 4) - (p \div 100) + (p \div 400)
        + DaysBeforeMonth(y, m) + d

\* carry seconds into days
Normalize(day, sec, tz) ==
    [day |-> day + (sec \div 86400), sec |-> sec % 86400, tzinfo |-> tz]

\* datetime(y, m, d, hh, mm, ss, tzinfo=tz)
Datetime(y, m, d, hh, mm, ss, tz) ==
    [day |-> ToOrdinal(y, m, d), sec |-> hh * 3600 + mm * 60 + ss, tzinfo |-> tz]

\* dt.replace(tzinfo=tz): the wall clock is kept, only the tag changes
ReplaceTzinfo(d, tz) == [d EXCEPT !.tzinfo = tz]

\* dt.date()
DateOf(d) == d.day

\* variant: timedelta(mins), whose first positional argument is days
AddMinutes_days(d, mins) == Normalize(d.day + mins, d.sec, d.tzinfo)

\* variant: timedelta(minutes=abs(mins))
AddMinutes_abs(d, mins) ==
    Normalize(d.day, d.sec + 60 * (IF mins < 0 THEN 0 - mins ELSE mins), d.tzinfo)

\* dt + timedelta(minutes=mins): wall-clock arithmetic, tzinfo kept
AddMinutes(d, mins) == Normalize(d.day, d.sec + 60 * mins, d.tzinfo)

\* total order on datetimes that carry the same tzinfo
Before(a, b) == (a.day < b.day) \/ (a.day = b.day /\ a.sec < b.sec)

\* offset (minutes) of an IANA zone at a UTC instant; the rule in force in
\* 2025 for America/New_York, zero for UTC
ZoneUtcOffset(name, day, sec) ==
    IF name = "America/New_York"
    THEN LET dstStart == [day |-> ToOrdinal(2025, 3, 9), sec |-> 7 * 3600]
             dstEnd == [day |-> ToOrdinal(2025, 11, 2), sec |-> 6 * 3600]
             now == [day |-> day, sec |-> sec]
         IN  IF ~Before(now, dstStart) /\ Before(now, dstEnd)
             THEN -240 ELSE -300
    ELSE 0

\* dt.utcoffset() in minutes, for a datetime tagged with a fixed offset
\* (timezone.utc or the offset parsed from an ISO string)
UtcOffset(d) == d.tzinfo.off

\* dt.astimezone(tz) for an aware dt: same instant, wall clock of tz
Astimezone(d, tz) ==
    LET u == Normalize(d.day, d.sec - 60 * UtcOffset(d), UTC)
        off == IF tz.kind = "fixed" THEN tz.off
               ELSE ZoneUtcOffset(tz.name, u.day, u.sec)
    IN  Normalize(u.day, u.sec + 60 * off, tz)

(***************************************************************************)
(* Text parsing: datetime.fromisoformat and int                            *)
(***************************************************************************)
Digits == {"0", "1", "2", "3", "4", "5", "6", "7", "8", "9"}

DigitVal(c) ==
    CASE c = "0" -> 0 [] c = "1" -> 1 [] c = "2" -> 2 [] c = "3" -> 3
      [] c = "4" -> 4 [] c = "5" -> 5 [] c = "6" -> 6 [] c = "7" -> 7
      [] c = "8" -> 8 [] c = "9" -> 9

AllDigits(s) == \A i \in 1..Len(s) : s[i] \in Digits

RECURSIVE Decimal(_)
Decimal(s) ==
    IF s = <<>> THEN 0
    ELSE 10 * Decimal(SubSeq(s, 1, Len(s) - 1)) + DigitVal(s[Len(s)])

ValueError == [ok |-> FALSE]
Parsed(v) == [ok |-> TRUE, val |-> v]

\* int(text): an optional sign followed by one or more decimal digits
ParseInt(s) ==
    LET signed == Len(s) > 0 /\ s[1] \in {"+", "-"}
        body == IF signed THEN Tail(s) ELSE s
    IN  IF Len(body) = 0 \/ ~AllDigits(body) THEN ValueError
        ELSE IF signed /\ s[1] = "-" THEN Parsed(0 - Decimal(body))
        ELSE Parsed(Decimal(body))

\* the calendar date YYYY-MM-DD at the head of an ISO string
ParseIsoDate(s) ==
    IF Len(s) < 10 THEN ValueError
    ELSE IF ~(AllDigits(SubSeq(s, 1, 4)) /\ s[5] = "-"
              /\ AllDigits(SubSeq(s, 6, 7)) /\ s[8] = "-"
              /\ AllDigits(SubSeq(s, 9, 10))) THEN ValueError
    ELSE LET y == Decimal(SubSeq(s, 1, 4))
             m == Decimal(SubSeq(s, 6, 7))
             d == Decimal(SubSeq(s, 9, 10))
         IN  IF y < 1 \/ m < 1 \/ m > 12 THEN ValueError
             ELSE IF d < 1 \/ d > DaysInMonth(y, m) THEN ValueError
             ELSE Parsed(ToOrdinal(y, m, d))

\* HH:MM:SS
ParseIsoTime(s) ==
    IF ~(Len(s) = 8 /\ AllDigits(SubSeq(s, 1, 2)) /\ s[3] = ":"
         /\ AllDigits(SubSeq(s, 4, 5)) /\ s[6] = ":"
         /\ AllDigits(SubSeq(s, 7, 8))) THEN ValueError
    ELSE LET hh == Decimal(SubSeq(s, 1, 2))
             mm == Decimal(SubSeq(s, 4, 5))
             ss == Decimal(SubSeq(s, 7, 8))
         IN  IF hh > 23 \/ mm > 59 \/ ss > 59 THEN ValueError
             ELSE Parsed(hh * 3600 + mm * 60 + ss)

\* the UTC offset suffix: empty (naive) or (+|-)HH:MM
ParseIsoOffset(s) ==
    IF s = <<>> THEN Parsed(NoTz)
    ELSE IF ~(Len(s) = 6 /\ s[1] \in {"+", "-"}
              /\ AllDigits(SubSeq(s, 2, 3)) /\ s[4] = ":"
              /\ AllDigits(SubSeq(s, 5, 6))) THEN ValueError
    ELSE LET hh == Decimal(SubSeq(s, 2, 3))
             mm == Decimal(SubSeq(s, 5, 6))
             mins == hh * 60 + mm
         IN  IF hh > 23 \/ mm > 59 THEN ValueError
             ELSE Parsed(FixedTz(IF s[1] = "-" THEN 0 - mins ELSE mins))

\* datetime.fromisoformat(text) for the forms YYYY-MM-DD,
\* YYYY-MM-DDTHH:MM:SS and YYYY-MM-DDTHH:MM:SS(+|-)HH:MM
FromIsoFormat(s) ==
    LET d == ParseIsoDate(s)
    IN  IF ~d.ok THEN ValueError
        ELSE IF Len(s) = 10 THEN Parsed([day |-> d.val, sec |-> 0, tzinfo |-> NoTz])
        ELSE IF Len(s) < 19 \/ s[11] # "T" THEN ValueError
        ELSE LET t == ParseIsoTime(SubSeq(s, 12, 19))
                 o == ParseIsoOffset(SubSeq(s, 20, Len(s)))
             IN  IF ~t.ok \/ ~o.ok THEN ValueError
                 ELSE Parsed([day |-> d.val, sec |-> t.val, tzinfo |-> o.val])

(***************************************************************************)
(* Ephemeris provider                                                      *)
(***************************************************************************)
\* Timescale.utc(year, month, day, hour, minute, second): built from the
\* calendar fields of the datetime; the tzinfo is not consulted
TsUtc(d) == [day |-> d.day, sec |-> d.sec]

\* a quantity the library computes for an observer on the ground
Topocentric(q, t, latitude, longitude) ==
    [quantity |-> q, t |-> t, latitude |-> latitude, longitude |-> longitude]

\* a quantity the library computes for the centre of the Earth
Geocentric(q, t) == [quantity |-> q, t |-> t]

(***************************************************************************)
(* moonrise_for_date                                                       *)
(***************************************************************************)
\* variant: the first event of the day, whatever its code
FirstRise_any(evs) == IF evs = <<>> THEN None ELSE Some(Head(evs).t)

\* the loop over zip(times, events): the first event whose code is 1
RECURSIVE FirstRise(_)
FirstRise(evs) ==
    IF evs = <<>> THEN None
    ELSE IF Head(evs).ev = 1 THEN Some(Head(evs).t)
    ELSE FirstRise(Tail(evs))

\* argument: [type |-> "date" | "datetime" | other, date, datetime]
MoonriseForDate(arg, provider) ==
    IF arg.type = "datetime" THEN [raised |-> "", value |-> FirstRise(provider[DateOf(arg.datetime)])]
    ELSE IF arg.type = "date" THEN [raised |-> "", value |-> FirstRise(provider[arg.date])]
    ELSE [raised |-> "TypeError", value |-> None]

(***************************************************************************)
(* moon_position and moon_illumination                                     *)
(***************************************************************************)
\* variant: a datetime without tzinfo is read as local standard time at KSC
MoonPosition_local(d, latitude, longitude) ==
    LET u == IF d.tzinfo.kind = "none"
             THEN Astimezone(ReplaceTzinfo(d, FixedTz(0 - 300)), UTC)
             ELSE Astimezone(d, UTC)
        t == TsUtc(u)
    IN  [datetime_utc |-> u,
         latitude |-> latitude,
         longitude |-> longitude,
         azimuth_deg |-> Topocentric("az.degrees", t, latitude, longitude),
         altitude_deg |-> Topocentric("alt.degrees", t, latitude, longitude),
         distance_km |-> Topocentric("distance.km", t, latitude, longitude),
         ra_hours |-> Topocentric("ra.hours", t, latitude, longitude),
         dec_deg |-> Topocentric("dec.degrees", t, latitude, longitude)]

MoonPosition(d, latitude, longitude) ==
    LET u == IF d.tzinfo.kind = "none" THEN ReplaceTzinfo(d, UTC)
             ELSE Astimezone(d, UTC)
        t == TsUtc(u)
    IN  [datetime_utc |-> u,
         latitude |-> latitude,
         longitude |-> longitude,
         azimuth_deg |-> Topocentric("az.degrees", t, latitude, longitude),
         altitude_deg |-> Topocentric("alt.degrees", t, latitude, longitude),
         distance_km |-> Topocentric("distance.km", t, latitude, longitude),
         ra_hours |-> Topocentric("ra.hours", t, latitude, longitude),
         dec_deg |-> Topocentric("dec.degrees", t, latitude, longitude)]

MoonIllumination(d) ==
    LET t == TsUtc(d)
    IN  [phase |-> Geocentric("phase", t), percent |-> Geocentric("percent", t)]

(***************************************************************************)
(* Inputs                                                                  *)
(***************************************************************************)
\* data rows an input file is made of (csv.DictReader yields one mapping
\* per data row); the last two are malformed: a date
\* that does not exist and a duration that is not an integer
RowCatalogue ==
    { [window_start_utc |-> <<"2", "0", "2", "5", "-", "0", "1", "-", "0", "1", "T", "1", "2", ":", "0", "0", ":", "0", "0">>,
       duration_mins |-> <<"6", "0">>],
      [window_start_utc |-> <<"2", "0", "2", "5", "-", "0", "1", "-", "0", "1", "T", "2", "3", ":", "3", "0", ":", "0", "0">>,
       duration_mins |-> <<"9", "0">>],
      [window_start_utc |-> <<"2", "0", "2", "5", "-", "0", "1", "-", "0", "2", "T", "0", "0", ":", "1", "0", ":", "0", "0">>,
       duration_mins |-> <<"0">>],
      [window_start_utc |-> <<"2", "0", "2", "5", "-", "0", "1", "-", "0", "2", "T", "0", "3", ":", "0", "0", ":", "0", "0", "+", "0", "5", ":", "0", "0">>,
       duration_mins |-> <<"-", "3", "0">>],
      [window_start_utc |-> <<"2", "0", "2", "5", "-", "0", "1", "-", "0", "2">>,
       duration_mins |-> <<"+", "5">>],
      [window_start_utc |-> <<"2", "0", "2", "5", "-", "0", "2", "-", "3", "0", "T", "1", "0", ":", "0", "0", ":", "0", "0">>,
       duration_mins |-> <<"6", "0">>],
      [window_start_utc |-> <<"2", "0", "2", "5", "-", "0", "1", "-", "0", "1", "T", "1", "2", ":", "0", "0", ":", "0", "0">>,
       duration_mins |-> <<"6", ".", "5">>] }

SeqsUpTo(S, n) == UNION { [1..k -> S] : k \in 0..n }

\* a row both conversions of the loader accept
RowValid(r) == FromIsoFormat(r.window_start_utc).ok /\ ParseInt(r.duration_mins).ok

\* the UTC days the windows of the catalogue start on
Days == { FromIsoFormat(r.window_start_utc).val.day : r \in { q \in RowCatalogue : RowValid(q) } }

\* the values a rising/setting function takes at successive changes: each
\* event is a change of the value, so rises (1) and sets (0) alternate
Alternating(codes) == \A k \in 1..(Len(codes) - 1) : codes[k] # codes[k + 1]

\* event lists for the UTC day d, one per code sequence of Codes: the
\* events are in time order, each a rise (1) or a set (0)
EventListsOver(d, Codes) ==
    { [k \in 1..Len(codes) |->
          [t |-> [day |-> d, sec |-> (86400 * k) \div (MaxEvents + 2), tzinfo |-> UTC],
           ev |-> codes[k]]] : codes \in Codes }

\* what almanac.find_discrete may report for the UTC day d: up to MaxEvents
\* alternating events
EventLists(d) ==
    EventListsOver(d, { c \in SeqsUpTo({0, 1}, MaxEvents) : Alternating(c) })

Providers == { p \in [Days -> UNION { EventLists(d) : d \in Days }] :
                 \A d \in Days : p[d] \in EventLists(d) }

\* what a replaced find_discrete (as in the tests) may report: any codes
StubEventLists(d) == EventListsOver(d, SeqsUpTo({0, 1}, MaxEvents))

StubProviders == { p \in [Days -> UNION { StubEventLists(d) : d \in Days }] :
                     \A d \in Days : p[d] \in StubEventLists(d) }

(***************************************************************************)
(* load_launch_windows_from_csv and                                        *)
(* calculate_moon_positions_for_launch_windows                             *)
(***************************************************************************)
Init ==
    /\ csv \in SeqsUpTo(RowCatalogue, MaxRows)
    /\ almanac \in Providers
    /\ local_tz = KSC_TZ
    /\ pc = "load"
    /\ reader_pos = 0
    /\ row_pos = 0
    /\ windows = <<>>
    /\ rows = <<>>
    /\ results = <<>>
    /\ ret = None
    /\ exc = ""
    /\ date_or_dt = None
    /\ moonrise = None
    /\ dt = None
    /\ pos_naive = None
    /\ pos_aware = None

\* variant: a timestamp that carries an offset is converted to UTC
\* (astimezone) instead of being retagged (replace)
LoadStep_convert(ws, row) ==
    LET parsed == FromIsoFormat(row.window_start_utc)
        duration == ParseInt(row.duration_mins)
    IN  IF parsed.ok /\ duration.ok
        THEN [raised |-> "",
              windows |-> Append(ws, [window_start_utc |->
                                          IF parsed.val.tzinfo = NoTz
                                          THEN ReplaceTzinfo(parsed.val, UTC)
                                          ELSE Astimezone(parsed.val, UTC),
                                      duration_mins |-> duration.val])]
        ELSE [raised |-> "ValueError", windows |-> ws]

\* variant: a malformed row is skipped (try/except: continue)
LoadStep_skip(ws, row) ==
    LET parsed == FromIsoFormat(row.window_start_utc)
        duration == ParseInt(row.duration_mins)
    IN  IF parsed.ok /\ duration.ok
        THEN [raised |-> "",
              windows |-> Append(ws, [window_start_utc |-> ReplaceTzinfo(parsed.val, UTC),
                                      duration_mins |-> duration.val])]
        ELSE [raised |-> "", windows |-> ws]

\* the body of "for row in reader": both conversions, then the append
LoadStep(ws, row) ==
    LET parsed == FromIsoFormat(row.window_start_utc)
        duration == ParseInt(row.duration_mins)
    IN  IF parsed.ok /\ duration.ok
        THEN [raised |-> "",
              windows |-> Append(ws, [window_start_utc |-> ReplaceTzinfo(parsed.val, UTC),
                                      duration_mins |-> duration.val])]
        ELSE [raised |-> "ValueError", windows |-> ws]

\* one iteration of "for row in reader"
LoadRow ==
    /\ pc = "load"
    /\ reader_pos < Len(csv)
    /\ LET out == LoadStep(windows, csv[reader_pos + 1])
       IN  /\ reader_pos' = reader_pos + 1
           /\ windows' = out.windows
           /\ exc' = out.raised
           /\ pc' = IF out.raised = "" THEN pc ELSE "raised"
    /\ UNCHANGED <<csv, almanac, local_tz, row_pos, rows, results, ret,
                   date_or_dt, moonrise, dt, pos_naive, pos_aware>>

\* "return windows", then rows = ..., tz = ZoneInfo(local_tz), results = []
LoadReturn ==
    /\ pc = "load"
    /\ reader_pos = Len(csv)
    /\ rows' = windows
    /\ results' = <<>>
    /\ pc' = "enrich"
    /\ UNCHANGED <<csv, almanac, local_tz, reader_pos, row_pos, windows, ret, exc,
                   date_or_dt, moonrise, dt, pos_naive, pos_aware>>

\* the record appended for one row, once its moonrise is known
EnrichedWindow(row, rise, latitude, longitude, tz) ==
    LET dt_start_utc == row.window_start_utc
        duration == row.duration_mins
        dt_end_utc == AddMinutes(dt_start_utc, duration)
        illum == MoonIllumination(dt_start_utc)
    IN  [window_start_utc |-> dt_start_utc,
         window_end_utc |-> dt_end_utc,
         window_start_local |-> Astimezone(dt_start_utc, tz),
         window_end_local |-> Astimezone(dt_end_utc, tz),
         duration_mins |-> duration,
         moon_position_start |-> MoonPosition(dt_start_utc, latitude, longitude),
         moon_position_end |-> MoonPosition(dt_end_utc, latitude, longitude),
         moonrise_utc |-> rise,
         moonrise_local |-> Some(Astimezone(rise[1], tz)),
         moon_illumination |-> illum.percent,
         moon_phase |-> illum.phase]

\* variant: the moonrise of the date the window ends on
MoonriseArg_end(row) ==
    [type |-> "date",
     date |-> DateOf(AddMinutes(row.window_start_utc, row.duration_mins)),
     datetime |-> row.window_start_utc]

\* the argument the enrichment loop passes to moonrise_for_date
MoonriseArg(row) ==
    [type |-> "date", date |-> DateOf(row.window_start_utc),
     datetime |-> row.window_start_utc]

\* variant: the moonrise is looked up once and reused for the later windows
EnrichStep_memo(res, row, provider, latitude, longitude, tz) ==
    LET call == MoonriseForDate(MoonriseArg(row), provider)
        rise == IF res = <<>> THEN call.value ELSE res[1].moonrise_utc
    IN  IF rise = None
        THEN [raised |-> "AttributeError", results |-> res]
        ELSE [raised |-> "",
              results |-> Append(res, EnrichedWindow(row, rise, latitude, longitude, tz))]

\* the body of "for row in rows"; None.astimezone(tz) is an AttributeError
EnrichStep(res, row, provider, latitude, longitude, tz) ==
    LET call == MoonriseForDate(MoonriseArg(row), provider)
    IN  IF call.value = None
        THEN [raised |-> "AttributeError", results |-> res]
        ELSE [raised |-> "",
              results |-> Append(res, EnrichedWindow(row, call.value, latitude, longitude, tz))]

\* one iteration of "for row in rows"
EnrichRow ==
    /\ pc = "enrich"
    /\ row_pos < Len(rows)
    /\ LET out == EnrichStep(results, rows[row_pos + 1], almanac,
                             KSC_LAT, KSC_LON, ZoneInfo(local_tz))
       IN  /\ row_pos' = row_pos + 1
           /\ results' = out.results
           /\ exc' = out.raised
           /\ pc' = IF out.raised = "" THEN pc ELSE "raised"
    /\ UNCHANGED <<csv, almanac, local_tz, reader_pos, windows, rows, ret,
                   date_or_dt, moonrise, dt, pos_naive, pos_aware>>

\* "return results"
Return ==
    /\ pc = "enrich"
    /\ row_pos = Len(rows)
    /\ ret' = Some(results)
    /\ pc' = "returned"
    /\ UNCHANGED <<csv, almanac, local_tz, reader_pos, row_pos, windows, rows,
                   results, exc, date_or_dt, moonrise, dt, pos_naive, pos_aware>>

Next == LoadRow \/ LoadReturn \/ EnrichRow \/ Return

Spec == Init /\ [][Next]_vars

(***************************************************************************)
(* Direct calls of moonrise_for_date                                       *)
(***************************************************************************)
PipelineIdle ==
    /\ csv = <<>>
    /\ local_tz = KSC_TZ
    /\ reader_pos = 0
    /\ row_pos = 0
    /\ windows = <<>>
    /\ rows = <<>>
    /\ results = <<>>
    /\ ret = None
    /\ exc = ""

\* times of day a datetime argument may carry
TimesOfDay == {0, 600, 12 * 3600, 23 * 3600 + 1800}

MoonriseArgs ==
    { [type |-> "date", date |-> d, datetime |-> [day |-> d, sec |-> 0, tzinfo |-> NoTz]] : d \in Days }
    \cup { [type |-> "datetime", date |-> d, datetime |-> [day |-> d, sec |-> s, tzinfo |-> tz]] :
             d \in Days, s \in TimesOfDay, tz \in {NoTz, UTC} }
    \cup { [type |-> "str", date |-> d, datetime |-> [day |-> d, sec |-> 0, tzinfo |-> NoTz]] : d \in Days }

InitMoonrise ==
    /\ PipelineIdle
    /\ almanac \in StubProviders
    /\ pc = "moonrise_for_date"
    /\ date_or_dt \in { Some(a) : a \in MoonriseArgs }
    /\ moonrise = None
    /\ dt = None
    /\ pos_naive = None
    /\ pos_aware = None

CallMoonriseForDate ==
    /\ pc = "moonrise_for_date"
    /\ LET call == MoonriseForDate(date_or_dt[1], almanac)
       IN  /\ exc' = call.raised
           /\ moonrise' = IF call.raised = "" THEN Some(call.value) ELSE None
           /\ pc' = IF call.raised = "" THEN "returned" ELSE "raised"
    /\ UNCHANGED <<csv, almanac, local_tz, reader_pos, row_pos, windows, rows,
                   results, ret, date_or_dt, dt, pos_naive, pos_aware>>

NextMoonrise == CallMoonriseForDate

SpecMoonrise == InitMoonrise /\ [][NextMoonrise]_vars

(***************************************************************************)
(* Direct calls of moon_position: once with a wall clock that carries no   *)
(* offset, once with the same wall clock carrying the offset of dt         *)
(***************************************************************************)
Offsets == {0, 60, 0 - 300, 330}

InitPosition ==
    /\ PipelineIdle
    /\ almanac \in { p \in Providers : \A d \in Days : p[d] = <<>> }
    /\ pc = "moon_position"
    /\ date_or_dt = None
    /\ moonrise = None
    /\ dt \in { Some([day |-> d, sec |-> s, tzinfo |-> FixedTz(o)]) :
                  d \in Days, s \in TimesOfDay, o \in Offsets }
    /\ pos_naive = None
    /\ pos_aware = None

CallNaive ==
    /\ pc = "moon_position"
    /\ pos_naive = None
    /\ pos_naive' = Some(MoonPosition(ReplaceTzinfo(dt[1], NoTz), KSC_LAT, KSC_LON))
    /\ UNCHANGED <<csv, almanac, local_tz, pc, reader_pos, row_pos, windows, rows,
                   results, ret, exc, date_or_dt, moonrise, dt, pos_aware>>

CallAware ==
    /\ pc = "moon_position"
    /\ pos_aware = None
    /\ pos_aware' = Some(MoonPosition(dt[1], KSC_LAT, KSC_LON))
    /\ UNCHANGED <<csv, almanac, local_tz, pc, reader_pos, row_pos, windows, rows,
                   results, ret, exc, date_or_dt, moonrise, dt, pos_naive>>

NextPosition == CallNaive \/ CallAware

SpecPosition == InitPosition /\ [][NextPosition]_vars

(***************************************************************************)
(* Properties                                                              *)
(***************************************************************************)
\* seconds from datetime a to datetime b on the wall clock
WallSeconds(a, b) == (b.day - a.day) * 86400 + (b.sec - a.sec)

\* the provider reports no rise event for UTC day d
NoRiseOn(d) == \A k \in 1..Len(almanac[d]) : almanac[d][k].ev # 1

\* t is the first rise event the provider reports for UTC day d
IsFirstRiseOn(t, d) ==
    \E k \in 1..Len(almanac[d]) :
        /\ almanac[d][k].ev = 1
        /\ almanac[d][k].t = t
        /\ \A j \in 1..(k - 1) : almanac[d][j].ev # 1

Finished == pc \in {"returned", "raised"}

\* C1: a window whose start date has no rise event does not make the call
\* raise, and its record has moonrise_utc and moonrise_local both None.
C1_MoonriseAbsencePropagates ==
    \A i \in 1..Len(rows) :
        NoRiseOn(DateOf(rows[i].window_start_utc)) =>
            /\ (Finished => pc = "returned")
            /\ (pc = "returned" =>
                    /\ ret[1][i].moonrise_utc = None
                    /\ ret[1][i].moonrise_local = None)

\* C2: for every loaded sequence of windows the call returns one record per
\* window, in input order, with the window's start and duration.
C2_OneRecordPerWindow ==
    (Finished /\ exc # "ValueError") =>
        /\ pc = "returned"
        /\ Len(ret[1]) = Len(rows)
        /\ \A i \in 1..Len(rows) :
              /\ ret[1][i].window_start_utc = rows[i].window_start_utc
              /\ ret[1][i].duration_mins = rows[i].duration_mins

\* C3: in every record, window_end_utc is window_start_utc plus exactly
\* duration_mins minutes.
C3_EndIsStartPlusDuration ==
    \A i \in 1..Len(results) :
        LET r == results[i]
        IN  /\ WallSeconds(r.window_start_utc, r.window_end_utc) = 60 * r.duration_mins
            /\ r.window_end_utc.sec \in 0..86399
            /\ r.window_end_utc.tzinfo = r.window_start_utc.tzinfo
            /\ (pc = "returned" => ret[1][i] = r)

C3_Witness ==
    /\ pc = "returned"
    /\ \E i \in 1..Len(ret[1]) :
          /\ ret[1][i].duration_mins > 0
          /\ ret[1][i].window_end_utc.day > ret[1][i].window_start_utc.day
    /\ \E i \in 1..Len(ret[1]) : ret[1][i].duration_mins < 0

\* C4: moonrise_for_date returns the timestamp of the first event of the
\* day whose code is 1, whatever set events precede it, and None exactly
\* when the day has no rise event.
C4_FirstRiseOrNone ==
    (pc = "returned" /\ date_or_dt # None) =>
        LET d == IF date_or_dt[1].type = "date" THEN date_or_dt[1].date
                 ELSE date_or_dt[1].datetime.day
        IN  /\ moonrise # None
            /\ (moonrise[1] = None <=> NoRiseOn(d))
            /\ (moonrise[1] # None => IsFirstRiseOn(moonrise[1][1], d))

C4_Witness ==
    /\ pc = "returned"
    /\ date_or_dt # None
    /\ date_or_dt[1].type = "datetime"
    /\ date_or_dt[1].datetime.sec > 0
    /\ LET evs == almanac[date_or_dt[1].datetime.day]
       IN  /\ Len(evs) >= 2
           /\ evs[1].ev = 0
           /\ evs[2].ev = 1
           /\ moonrise = Some(Some(evs[2].t))

\* C5: moon_position of a wall clock without offset equals moon_position of
\* the same wall clock tagged UTC, with a UTC-aware datetime_utc; a wall
\* clock with another offset is converted to the same instant in UTC, and
\* the provider is asked about that instant.
C5_NaiveIsUtc ==
    (pos_naive # None /\ pos_aware # None) =>
        LET n == pos_naive[1]
            a == pos_aware[1]
            off == dt[1].tzinfo.off
        IN  /\ n.datetime_utc.tzinfo = UTC
            /\ WallSeconds(dt[1], n.datetime_utc) = 0
            /\ (off = 0 => n = a)
            /\ a.datetime_utc.tzinfo = UTC
            /\ WallSeconds(dt[1], a.datetime_utc) = 0 - 60 * off
            /\ a.azimuth_deg.t = [day |-> a.datetime_utc.day, sec |-> a.datetime_utc.sec]
            /\ a.altitude_deg.t = a.azimuth_deg.t

C5_Witness ==
    /\ pos_naive # None
    /\ pos_aware # None
    /\ dt[1].tzinfo = UTC
    /\ dt[1].sec > 0
    /\ pos_naive = pos_aware

\* C6: when every data row is valid, the loader returns one record per row
\* in file order; the record's start is the row's timestamp with its wall
\* clock kept and tagged UTC, its duration the row's integer, also when
\* that is zero or negative.
C6_LoadPreservesRows ==
    ((\A k \in 1..Len(csv) : RowValid(csv[k])) /\ pc \notin {"load", "moonrise_for_date", "moon_position"}) =>
        /\ exc # "ValueError"
        /\ Len(rows) = Len(csv)
        /\ \A k \in 1..Len(csv) :
              LET text == FromIsoFormat(csv[k].window_start_utc).val
              IN  /\ rows[k].window_start_utc.tzinfo = UTC
                  /\ rows[k].window_start_utc.day = text.day
                  /\ rows[k].window_start_utc.sec = text.sec
                  /\ rows[k].duration_mins = ParseInt(csv[k].duration_mins).val

C6_Witness ==
    /\ pc = "enrich"
    /\ Len(rows) = 2
    /\ Len(csv) = 2
    /\ rows[1].duration_mins < 0
    /\ FromIsoFormat(csv[1].window_start_utc).val.tzinfo # NoTz
    /\ Before(rows[2].window_start_utc, rows[1].window_start_utc)

\* C7: when some data row is malformed, the loader ends with a parsing
\* error, no list of windows is returned (not the rows before the bad one,
\* not the rows around it), and no window is enriched.
C7_MalformedRowAborts ==
    (\E k \in 1..Len(csv) : ~RowValid(csv[k])) =>
        /\ rows = <<>>
        /\ results = <<>>
        /\ ret = None
        /\ pc \in {"load", "raised"}
        /\ (pc = "raised" => exc = "ValueError")
        /\ (reader_pos = Len(csv) => pc = "raised")

C7_Witness ==
    /\ pc = "raised"
    /\ exc = "ValueError"
    /\ Len(csv) = 2
    /\ RowValid(csv[1])
    /\ ~RowValid(csv[2])
    /\ Len(windows) = 1

\* C8 as stated: every record has window_end_utc after window_start_utc.
C8_EndAfterStart ==
    \A i \in 1..Len(results) :
        Before(results[i].window_start_utc, results[i].window_end_utc)

\* C8 amended: a record has window_end_utc after window_start_utc exactly
\* when its duration_mins is positive; with a zero duration the end equals
\* the start, with a negative one it precedes it.
C8_EndAfterStartIffPositive ==
    \A i \in 1..Len(results) :
        LET r == results[i]
        IN  /\ (Before(r.window_start_utc, r.window_end_utc) <=> r.duration_mins > 0)
            /\ (r.duration_mins = 0 => r.window_end_utc = r.window_start_utc)
            /\ (r.duration_mins < 0 => Before(r.window_end_utc, r.window_start_utc))

C8_Witness ==
    /\ pc = "returned"
    /\ Len(ret[1]) = 2
    /\ ret[1][1].duration_mins < 0
    /\ ret[1][2].duration_mins = 0

\* C9: moonrise_utc is the first rise event of the UTC day window_start_utc
\* falls on; records whose starts fall on the same UTC day have the same
\* moonrise_utc, whatever their times of day and durations.
C9_MoonriseOfStartDay ==
    \A i \in 1..Len(results) :
        /\ results[i].moonrise_utc # None
        /\ IsFirstRiseOn(results[i].moonrise_utc[1], results[i].window_start_utc.day)
        /\ \A j \in 1..Len(results) :
              results[i].window_start_utc.day = results[j].window_start_utc.day
                  => results[i].moonrise_utc = results[j].moonrise_utc

C9_Witness ==
    /\ pc = "returned"
    /\ Len(ret[1]) = 2
    /\ ret[1][1].window_start_utc.day = ret[1][2].window_start_utc.day
    /\ ret[1][1].window_start_utc # ret[1][2].window_start_utc
    /\ ret[1][1].duration_mins # ret[1][2].duration_mins
    /\ ret[1][2].window_end_utc.day > ret[1][2].window_start_utc.day
    /\ Before(ret[1][1].moonrise_utc[1], ret[1][1].window_start_utc)
    /\ ret[1][1].moonrise_utc = ret[1][2].moonrise_utc

\* the record of a window taken alone: the result of enriching the
\* one-window sequence <<w>> with the same provider, location and zone
Alone(w) ==
    EnrichStep(<<>>, w, almanac, KSC_LAT, KSC_LON, ZoneInfo(local_tz)).results

\* C10: the record produced for a window is the one it gets when it is the
\* only window of the input, whatever its position and its neighbours; in
\* particular equal windows get equal records.
C10_NoCrossWindowState ==
    \A i \in 1..Len(results) :
        /\ <<results[i]>> = Alone(rows[i])
        /\ \A j \in 1..Len(results) : rows[i] = rows[j] => results[i] = results[j]

C10_Witness ==
    /\ pc = "returned"
    /\ Len(ret[1]) = 2
    /\ rows[1].window_start_utc.day # rows[2].window_start_utc.day
    /\ ret[1][1].moonrise_utc # ret[1][2].moonrise_utc

====
